---- MODULE Spec2Model ----
(***************************************************************************)
(* Model of web_player.py: the playlist resolution (get_playlist,          *)
(* build_playlist_with_durations), the fingerprint, the looping index      *)
(* computation (get_current_item_index) and the request handlers           *)
(* api_playlist and api_playlist_sync running on concurrent threads over   *)
(* the module-level sync anchor.                                           *)
(*                                                                         *)
(* A file name is the record [stem, ext] (name = stem ++ ext), so that     *)
(* Path(name).stem is a projection.  Time is counted in whole seconds.     *)
(***************************************************************************)
EXTENDS Integers, Sequences, FiniteSets, TLC

VARIABLES
  videos,          \* names of the files get_video_files() finds in VIDEOS_DIR
  slide_cache,     \* SLIDES_CACHE_DIR: existing presentation dir -> number of slide_*.png
  config,          \* CONFIG_FILE
  playlist_json,   \* PLAYLIST_JSON
  now,             \* the value time.time() returns
  playlist_cache,        \* _playlist_cache
  playlist_hash_cache,   \* _playlist_hash_cache
  playlist_start_time,   \* _playlist_start_time
  pc,              \* per thread: position in api_playlist_sync ("idle": no request)
  playlist,        \* per thread: local `playlist`
  elapsed,         \* per thread: time.time() read at line 243, then local `elapsed`
  position,        \* per thread: <<current_index, item_elapsed>>
  server_time,     \* per thread: the 'serverTime' value of the response being built
  started,         \* history: per thread, time.time() when its request started
  anchor_at_start, \* history: per thread, the anchor when its request started
  era_at_start,    \* history: per thread, `changes` when its request started
  observed,        \* history: per thread, `epoch` when its comparison found a difference
  written,         \* history: per thread, the start time its request wrote
  epoch,           \* history: number of writes that changed _playlist_hash_cache
  prev_resp,       \* history: the synchronized request completed before the latest one
  last_resp,       \* history: the latest completed synchronized request
  changes,         \* history: number of changes made to the inputs
  ticks,           \* history: number of clock advances
  requests,        \* history: number of synchronized requests started
  hash_writer,     \* history: the thread whose request last ran line 238 (0: none)
  start_writer,    \* history: the thread whose request last ran line 239 (0: none)
  api_pc,          \* position of the api_playlist request ("idle": no request)
  api_playlist,    \* api_playlist: the value of get_playlist() at line 219
  api_resp,        \* history: the latest response of api_playlist
  cmd_file,        \* commands/web.json
  cmd_resp,        \* history: the latest response of api_command
  res_playlist,    \* get_playlist under test: its result
  res_sync,        \* build_playlist_with_durations under test: its result
  idx_playlist,    \* get_current_item_index under test: argument playlist
  idx_elapsed,     \* get_current_item_index under test: argument elapsed_time
  idx_result       \* get_current_item_index under test: result

vars == <<videos, slide_cache, config, playlist_json, now,
          playlist_cache, playlist_hash_cache, playlist_start_time,
          pc, playlist, elapsed, position, server_time,
          started, anchor_at_start, era_at_start, observed, written, epoch,
          prev_resp, last_resp, changes, ticks, requests,
          hash_writer, start_writer, api_pc, api_playlist, api_resp, cmd_file, cmd_resp,
          res_playlist, res_sync, idx_playlist, idx_elapsed, idx_result>>

env_vars == <<videos, slide_cache, config, playlist_json>>
anchor_vars == <<playlist_cache, playlist_hash_cache, playlist_start_time>>
local_vars == <<playlist, elapsed, position, server_time>>
thread_history_vars == <<started, anchor_at_start, era_at_start, observed, written>>
resp_history_vars == <<prev_resp, last_resp>>
pure_vars == <<res_playlist, res_sync, idx_playlist, idx_elapsed, idx_result>>
writer_vars == <<hash_writer, start_writer>>
api_vars == <<api_pc, api_playlist, api_resp, cmd_file, cmd_resp>>

(***************************************************************************)
(* Bounds                                                                  *)
(***************************************************************************)
NumThreads == 2     \* concurrent request threads
MaxSlides == 2      \* slides per presentation directory
MaxSelLen == 2      \* entries in playlist.json
MaxRepeats == 2     \* largest repeats value in playlist.json
MaxTicks == 1       \* clock advances
MaxRequests == 2    \* synchronized requests in one run
MaxChanges == 1     \* changes to the inputs in one run
TickStep == 15      \* seconds per clock advance
MaxIdxLen == 3      \* entries of a playlist handed to get_current_item_index
MaxIdxDuration == 3 \* largest duration in such a playlist
MaxIdxElapsed == 12 \* largest elapsed time handed to get_current_item_index

(***************************************************************************)
(* Program constants                                                       *)
(***************************************************************************)
SLIDE_DURATION == 10
VIDEO_DURATION == 30    \* get_video_duration's return value
StartClock == 1         \* time.time() is positive

Threads == 1..NumThreads

None == <<>>            \* Python None for the tuple-valued globals
NoTime == 0             \* Python None for the time-valued globals and locals (falsy)
Unbound == -1           \* a local that was never assigned

Truthy(t) == t # NoTime

(***************************************************************************)
(* The content store and the two input files                               *)
(***************************************************************************)
Name(stem, ext) == [stem |-> stem, ext |-> ext]

\* Video files that may exist, in the ascending order sorted() gives them.
VideoFiles == << Name("a", ".mp4"), Name("b", ".mp4") >>
\* Presentation directories that may exist under SLIDES_CACHE_DIR, ascending.
PresDirs == << "a", "deck" >>
\* slide_<n>.png of a presentation, ascending (n <= 9: name order is number order).
SlideFiles == << Name("slide_1", ".png"), Name("slide_2", ".png"), Name("slide_3", ".png"),
                 Name("slide_4", ".png"), Name("slide_5", ".png") >>

Range(s) == { s[i] : i \in DOMAIN s }

VideoStores == SUBSET Range(VideoFiles)
\* a presentation directory is empty, holds one slide, or holds MaxSlides slides
SlideCounts == {0, 1, MaxSlides}
SlideCaches == UNION { [D -> SlideCounts] : D \in SUBSET Range(PresDirs) }

\* CONFIG_FILE: missing, not JSON, JSON but no object, or an object with or without 'mode'.
Configs ==
  { [state |-> "missing", mode |-> "absent"],
    [state |-> "unparseable", mode |-> "absent"],
    [state |-> "notdict", mode |-> "absent"] }
  \cup { [state |-> "dict", mode |-> m] :
           m \in {"absent", "both", "video", "presentation", "other"} }

\* Names playlist.json may carry: a video, a presentation file, a name of nothing.
SelectionNames == { Name("a", ".mp4"), Name("deck", ".pptx"), Name("zzz", ".mp4") }

\* One element of the playlist.json list.  kind: "str" a string, "dict" an object,
\* "other" anything else.  name.t: "str" a non-empty string, "falsy" missing, null or
\* empty (for an object: under both 'name' and 'filename'), "num" a non-zero number,
\* "list" a non-empty list.  repeats.t: "int" something int() converts (to v),
\* "missing" no such key, "bad" something int() raises on.
NoName == Name("", "")
RawName(t, n) == [t |-> t, v |-> n]
RawRepeats(t, r) == [t |-> t, v |-> r]
RawEntry(kind, name, repeats) == [kind |-> kind, name |-> name, repeats |-> repeats]

\* Well-formed entries: {name, repeats} objects, played once or MaxRepeats times.
GoodEntries ==
  { RawEntry("dict", RawName("str", n), RawRepeats("int", r)) :
      n \in SelectionNames, r \in {1, MaxRepeats} }

\* The other shapes the file may hold.
OddEntries ==
  { RawEntry("str", RawName("str", n), RawRepeats("missing", 1)) : n \in SelectionNames }
  \cup { RawEntry("str", RawName("falsy", NoName), RawRepeats("missing", 1)) }
  \cup { RawEntry("dict", RawName("str", Name("a", ".mp4")), RawRepeats("int", r)) :
           r \in {-1, 0} }
  \cup { RawEntry("dict", RawName("str", Name("a", ".mp4")), RawRepeats(t, 1)) :
           t \in {"missing", "bad"} }
  \cup { RawEntry("dict", RawName(t, NoName), RawRepeats("missing", 1)) :
           t \in {"falsy", "num", "list"} }
  \cup { RawEntry("other", RawName("falsy", NoName), RawRepeats("missing", 1)) }

RawEntries == GoodEntries \cup OddEntries

SeqsUpTo(S, n) == UNION { [1..k -> S] : k \in 0..n }

PlaylistFiles ==
  { [state |-> "missing", data |-> <<>>],
    [state |-> "unparseable", data |-> <<>>],
    [state |-> "notlist", data |-> <<>>] }
  \cup { [state |-> "list", data |-> d] : d \in SeqsUpTo(RawEntries, MaxSelLen) }

\* The absent file, and the files whose list holds well-formed entries only.
GoodPlaylistFiles ==
  { [state |-> "missing", data |-> <<>>] }
  \cup { [state |-> "list", data |-> d] : d \in SeqsUpTo(GoodEntries, MaxSelLen) }

\* Those, the files that hold no list, and the lists of one entry of another shape.
ResolvePlaylistFiles ==
  GoodPlaylistFiles
  \cup { [state |-> "unparseable", data |-> <<>>], [state |-> "notlist", data |-> <<>>] }
  \cup { [state |-> "list", data |-> << e >>] : e \in OddEntries }

\* config.json holding each of the three modes
ModeConfigs == { [state |-> "dict", mode |-> m] : m \in {"both", "video", "presentation"} }

\* Playlists handed to get_current_item_index: entries with a duration, and one without
IdxItems == { [type |-> "image", duration |-> d] : d \in 0..MaxIdxDuration }
            \cup { [type |-> "video"] }

(***************************************************************************)
(* get_video_files, get_slide_files                                        *)
(***************************************************************************)
\* sorted(files): the files of VIDEOS_DIR with a video extension, ascending.
get_video_files(vs) == SelectSeq(VideoFiles, LAMBDA v : v \in vs)

\* sorted(pres_dir.glob('slide_*.png')) as paths relative to SLIDES_CACHE_DIR.
SlidesOf(cache, stem) ==
  IF stem \in DOMAIN cache
    THEN [ i \in 1..cache[stem] |-> [dir |-> stem, file |-> SlideFiles[i]] ]
    ELSE <<>>

RECURSIVE Flatten(_)
Flatten(ss) == IF ss = <<>> THEN <<>> ELSE Head(ss) \o Flatten(Tail(ss))

\* every directory of SLIDES_CACHE_DIR, ascending, each with its slides ascending
get_slide_files(cache) ==
  Flatten([ i \in DOMAIN PresDirs |-> SlidesOf(cache, PresDirs[i]) ])

(***************************************************************************)
(* Playlist entries                                                        *)
(***************************************************************************)
VideoUrl(v) == [root |-> "/content/videos/", path |-> <<v>>]
SlideUrl(s) == [root |-> "/content/slides/", path |-> <<Name(s.dir, ""), s.file>>]

\* get_playlist's video entry carries no 'duration' key
VideoEntry(v) == [type |-> "video", url |-> VideoUrl(v), name |-> v]
VideoEntryWithDuration(v) ==
  [type |-> "video", url |-> VideoUrl(v), name |-> v, duration |-> VIDEO_DURATION]
SlideEntry(s) ==
  [type |-> "image", url |-> SlideUrl(s), name |-> s.file, duration |-> SLIDE_DURATION]

\* item.get('duration', 0)
DurationOf(item) == IF "duration" \in DOMAIN item THEN item.duration ELSE 0

(***************************************************************************)
(* Reading the mode (lines 52-58 and 160-166)                              *)
(***************************************************************************)
read_mode(cfg) ==
  IF cfg.state = "dict" /\ cfg.mode # "absent" THEN cfg.mode ELSE "both"

AllowsVideo(mode) == mode \in {"both", "video"}
AllowsPresentation(mode) == mode \in {"both", "presentation"}


(***************************************************************************)
(* get_playlist (lines 48-132)                                             *)
(***************************************************************************)
Max(a, b) == IF a >= b THEN a ELSE b

\* Mutant of normalize_entry: repeats is taken as converted, without max(1, repeats).
normalize_entry_raw_repeats(e) ==
  IF e.kind = "str"
    THEN << [name |-> e.name, repeats |-> 1] >>
  ELSE IF e.kind = "dict"
    THEN LET repeats == IF e.repeats.t = "int" THEN e.repeats.v ELSE 1
         IN  IF e.name.t # "falsy"
               THEN << [name |-> e.name, repeats |-> repeats] >>
               ELSE <<>>
  ELSE <<>>

\* lines 68-78: what one element of the list adds to `selected`
normalize_entry(e) ==
  IF e.kind = "str"
    THEN << [name |-> e.name, repeats |-> 1] >>
  ELSE IF e.kind = "dict"
    THEN LET repeats == IF e.repeats.t = "int" THEN e.repeats.v ELSE 1
         IN  IF e.name.t # "falsy"
               THEN << [name |-> e.name, repeats |-> Max(1, repeats)] >>
               ELSE <<>>
  ELSE <<>>

\* lines 62-80: `selected`; a file that is missing, unparseable or no list gives []
read_selected(pj) ==
  IF pj.state = "list"
    THEN Flatten([ i \in DOMAIN pj.data |-> normalize_entry(pj.data[i]) ])
    ELSE <<>>

\* for _ in range(repeats): the block `items`, repeats times in a row
RECURSIVE Repeat(_, _)
Repeat(items, n) == IF n <= 0 THEN <<>> ELSE items \o Repeat(items, n - 1)

\* Mutant of expand_presentation: each slide repeated in place.
expand_each_slide(slides, repeats) ==
  Flatten([ i \in DOMAIN slides |-> Repeat(<< SlideEntry(slides[i]) >>, repeats) ])

\* lines 104-112: the slides of one presentation, the whole run `repeats` times
expand_presentation(slides, repeats) ==
  Repeat([ i \in DOMAIN slides |-> SlideEntry(slides[i]) ], repeats)

\* Mutant of resolve_entry: the name is resolved first and the mode decides afterwards,
\* so that a known video is never looked up as a presentation.
resolve_entry_mode_last(entry, vs, cache, mode) ==
  IF entry.name.t = "falsy"
    THEN [fault |-> FALSE, items |-> <<>>]
  ELSE IF entry.name.t # "str"
    THEN [fault |-> TRUE, items |-> <<>>]
  ELSE IF entry.name.v \in vs
    THEN [fault |-> FALSE,
          items |-> IF AllowsVideo(mode)
                      THEN Repeat(<< VideoEntry(entry.name.v) >>, entry.repeats)
                      ELSE <<>>]
  ELSE LET stem == entry.name.v.stem
       IN  IF stem \in DOMAIN cache /\ AllowsPresentation(mode)
             THEN [fault |-> FALSE,
                   items |-> expand_presentation(SlidesOf(cache, stem), entry.repeats)]
             ELSE [fault |-> FALSE, items |-> <<>>]

\* Mutant of resolve_entry: the presentation branch does not look at the mode.
resolve_entry_any_mode(entry, vs, cache, mode) ==
  IF entry.name.t = "falsy"
    THEN [fault |-> FALSE, items |-> <<>>]
  ELSE IF entry.name.t # "str"
    THEN [fault |-> TRUE, items |-> <<>>]
  ELSE IF entry.name.v \in vs /\ AllowsVideo(mode)
    THEN [fault |-> FALSE, items |-> Repeat(<< VideoEntry(entry.name.v) >>, entry.repeats)]
  ELSE LET stem == entry.name.v.stem
       IN  IF stem \in DOMAIN cache
             THEN [fault |-> FALSE,
                   items |-> expand_presentation(SlidesOf(cache, stem), entry.repeats)]
             ELSE [fault |-> FALSE, items |-> <<>>]

\* lines 88-112: what one entry of `selected` appends; fault: the statement raises
\* (`name in video_files` on an unhashable name, Path(name) on a name that is no string)
resolve_entry(entry, vs, cache, mode) ==
  IF entry.name.t = "falsy"
    THEN [fault |-> FALSE, items |-> <<>>]
  ELSE IF entry.name.t # "str"
    THEN [fault |-> TRUE, items |-> <<>>]
  ELSE IF entry.name.v \in vs /\ AllowsVideo(mode)
    THEN [fault |-> FALSE, items |-> Repeat(<< VideoEntry(entry.name.v) >>, entry.repeats)]
  ELSE LET stem == entry.name.v.stem
       IN  IF stem \in DOMAIN cache /\ AllowsPresentation(mode)
             THEN [fault |-> FALSE,
                   items |-> expand_presentation(SlidesOf(cache, stem), entry.repeats)]
             ELSE [fault |-> FALSE, items |-> <<>>]

\* lines 87-112: the loop over `selected`; it stops at the first entry that raises
RECURSIVE resolve_selected(_, _, _, _)
resolve_selected(selected, vs, cache, mode) ==
  IF selected = <<>>
    THEN [fault |-> FALSE, playlist |-> <<>>]
    ELSE LET first == resolve_entry(Head(selected), vs, cache, mode)
             rest == resolve_selected(Tail(selected), vs, cache, mode)
         IN  IF first.fault
               THEN [fault |-> TRUE, playlist |-> <<>>]
               ELSE [fault |-> rest.fault,
                     playlist |-> IF rest.fault THEN <<>> ELSE first.items \o rest.playlist]

\* lines 114-130: the default enumeration, videos first, then slides
default_playlist(vs, cache, mode) ==
  (IF AllowsVideo(mode)
     THEN [ i \in DOMAIN get_video_files(vs) |-> VideoEntry(get_video_files(vs)[i]) ]
     ELSE <<>>)
  \o
  (IF AllowsPresentation(mode)
     THEN [ i \in DOMAIN get_slide_files(cache) |-> SlideEntry(get_slide_files(cache)[i]) ]
     ELSE <<>>)

\* Mutant of get_playlist: a selection that resolves to nothing falls back to the
\* default enumeration.
get_playlist_fallback(vs, cache, cfg, pj) ==
  LET mode == read_mode(cfg)
      selected == read_selected(pj)
      resolved == resolve_selected(selected, vs, cache, mode)
  IN  IF selected # <<>> /\ (resolved.fault \/ resolved.playlist # <<>>)
        THEN resolved
        ELSE [fault |-> FALSE, playlist |-> default_playlist(vs, cache, mode)]

get_playlist(vs, cache, cfg, pj) ==
  LET mode == read_mode(cfg)
      selected == read_selected(pj)
  IN  IF selected # <<>>
        THEN resolve_selected(selected, vs, cache, mode)
        ELSE [fault |-> FALSE, playlist |-> default_playlist(vs, cache, mode)]

(***************************************************************************)
(* build_playlist_with_durations (lines 155-188)                           *)
(***************************************************************************)
build_playlist_with_durations(vs, cache, cfg) ==
  LET mode == read_mode(cfg)
  IN  (IF AllowsVideo(mode)
         THEN [ i \in DOMAIN get_video_files(vs) |->
                  VideoEntryWithDuration(get_video_files(vs)[i]) ]
         ELSE <<>>)
      \o
      (IF AllowsPresentation(mode)
         THEN [ i \in DOMAIN get_slide_files(cache) |-> SlideEntry(get_slide_files(cache)[i]) ]
         ELSE <<>>)

(***************************************************************************)
(* get_playlist_hash_from (lines 190-192)                                  *)
(***************************************************************************)
\* json.dumps(item, sort_keys=True): the keys the item has, in ascending order
SortedKeys == << "duration", "name", "type", "url" >>
dump_item(item) ==
  LET keys == SelectSeq(SortedKeys, LAMBDA k : k \in DOMAIN item)
  IN  [ i \in DOMAIN keys |->
          [key |-> keys[i],
           value |-> IF keys[i] = "duration" THEN << item.duration >>
                     ELSE IF keys[i] = "name" THEN << item.name >>
                     ELSE IF keys[i] = "type" THEN << item.type >>
                     ELSE << item.url >>] ]

json_dumps(pl) == [ i \in DOMAIN pl |-> dump_item(pl[i]) ]

\* hashlib.md5(...).hexdigest(), taken to be collision-free: the digest stands for
\* the string it was computed from
md5(str) == << "md5", str >>

get_playlist_hash_from(pl) == md5(json_dumps(pl))

(***************************************************************************)
(* calculate_total_duration, get_current_item_index (lines 194-210)        *)
(***************************************************************************)
RECURSIVE calculate_total_duration(_)
calculate_total_duration(pl) ==
  IF pl = <<>> THEN 0 ELSE DurationOf(Head(pl)) + calculate_total_duration(Tail(pl))

\* Mutant of walk: the comparison of line 205 is >= instead of >.
RECURSIVE walk_ge(_, _, _, _)
walk_ge(pl, idx, cumulative, position_in_loop) ==
  IF idx > Len(pl)
    THEN << 0, 0 >>
  ELSE IF cumulative + DurationOf(pl[idx]) >= position_in_loop
    THEN << idx - 1, position_in_loop - cumulative >>
  ELSE walk_ge(pl, idx + 1, cumulative + DurationOf(pl[idx]), position_in_loop)

\* lines 203-210: the walk from entry idx (1-based here) with `cumulative` so far;
\* the result's index is 0-based as in the code
RECURSIVE walk(_, _, _, _)
walk(pl, idx, cumulative, position_in_loop) ==
  IF idx > Len(pl)
    THEN << 0, 0 >>
  ELSE IF cumulative + DurationOf(pl[idx]) > position_in_loop
    THEN << idx - 1, position_in_loop - cumulative >>
  ELSE walk(pl, idx + 1, cumulative + DurationOf(pl[idx]), position_in_loop)

get_current_item_index(pl, elapsed_time) ==
  LET total_duration == calculate_total_duration(pl)
  IN  IF total_duration = 0
        THEN << 0, 0 >>
        ELSE walk(pl, 1, 0, elapsed_time % total_duration)


(***************************************************************************)
(* api_playlist_sync (lines 224-256), one action per statement that reads  *)
(* or writes shared state: the threads of the server interleave there.     *)
(***************************************************************************)
Anchor == [cache |-> playlist_cache, hash |-> playlist_hash_cache,
           start |-> playlist_start_time]

\* lines 232-233
SyncBuild(t) ==
  /\ pc[t] = "idle"
  /\ requests < MaxRequests
  /\ requests' = requests + 1
  /\ playlist' = [playlist EXCEPT ![t] = build_playlist_with_durations(videos, slide_cache, config)]
  /\ pc' = [pc EXCEPT ![t] = "compare"]
  /\ started' = [started EXCEPT ![t] = now]
  /\ anchor_at_start' = [anchor_at_start EXCEPT ![t] = << Anchor >>]
  /\ era_at_start' = [era_at_start EXCEPT ![t] = changes]
  /\ UNCHANGED <<env_vars, now, anchor_vars, elapsed, position, server_time, observed,
                 written, epoch, resp_history_vars, changes, ticks, pure_vars,
                 writer_vars, api_vars>>

\* Mutant of hash_changed: every request resets the anchor.
hash_changed_always(playlist_hash, stored) == TRUE

\* line 236: playlist_hash != _playlist_hash_cache
hash_changed(playlist_hash, stored) == playlist_hash # stored

SyncCompare(t) ==
  /\ pc[t] = "compare"
  /\ IF hash_changed(get_playlist_hash_from(playlist[t]), playlist_hash_cache)
       THEN /\ pc' = [pc EXCEPT ![t] = "set_cache"]
            /\ observed' = [observed EXCEPT ![t] = epoch]
       ELSE /\ pc' = [pc EXCEPT ![t] = "check"]
            /\ UNCHANGED observed
  /\ UNCHANGED <<env_vars, now, anchor_vars, local_vars, started, anchor_at_start,
                 era_at_start, written, epoch, resp_history_vars, changes, ticks,
                 requests, pure_vars,
                 writer_vars, api_vars>>

\* line 237
SyncSetCache(t) ==
  /\ pc[t] = "set_cache"
  /\ playlist_cache' = << playlist[t] >>
  /\ pc' = [pc EXCEPT ![t] = "set_hash"]
  /\ UNCHANGED <<env_vars, now, playlist_hash_cache, playlist_start_time, local_vars,
                 thread_history_vars, epoch, resp_history_vars, changes, ticks,
                 requests, pure_vars,
                 writer_vars, api_vars>>

\* line 238
SyncSetHash(t) ==
  /\ pc[t] = "set_hash"
  /\ playlist_hash_cache' = get_playlist_hash_from(playlist[t])
  /\ epoch' = IF playlist_hash_cache' # playlist_hash_cache THEN epoch + 1 ELSE epoch
  /\ hash_writer' = t
  /\ pc' = [pc EXCEPT ![t] = "set_start"]
  /\ UNCHANGED <<env_vars, now, playlist_cache, playlist_start_time, local_vars,
                 thread_history_vars, resp_history_vars, changes, ticks, requests,
                 pure_vars, start_writer, api_vars>>

\* Mutant of new_start_time: an anchor that exists keeps its start time.
new_start_time_kept(old, clock) == IF Truthy(old) THEN old ELSE clock

\* line 239: the value assigned to _playlist_start_time
new_start_time(old, clock) == clock

SyncSetStart(t) ==
  /\ pc[t] = "set_start"
  /\ playlist_start_time' = new_start_time(playlist_start_time, now)
  /\ written' = [written EXCEPT ![t] = playlist_start_time']
  /\ start_writer' = t
  /\ pc' = [pc EXCEPT ![t] = "check"]
  /\ UNCHANGED <<env_vars, now, playlist_cache, playlist_hash_cache, local_vars,
                 started, anchor_at_start, era_at_start, observed, epoch,
                 resp_history_vars, changes, ticks, requests, pure_vars,
                 hash_writer, api_vars>>

\* line 242: whether the position is computed; lines 246-247 when it is not
computes_position(start_time, pl) == Truthy(start_time) /\ pl # <<>>

\* Mutant of default_position: no else branch, the two locals stay unassigned.
default_position_unbound == << Unbound, Unbound >>

default_position == << 0, 0 >>

SyncCheck(t) ==
  /\ pc[t] = "check"
  /\ IF computes_position(playlist_start_time, playlist[t])
       THEN /\ pc' = [pc EXCEPT ![t] = "read_clock"]
            /\ UNCHANGED position
       ELSE /\ pc' = [pc EXCEPT ![t] = "server_time"]
            /\ position' = [position EXCEPT ![t] = default_position]
  /\ UNCHANGED <<env_vars, now, anchor_vars, playlist, elapsed, server_time,
                 thread_history_vars, epoch, resp_history_vars, changes, ticks,
                 requests, pure_vars,
                 writer_vars, api_vars>>

\* line 243, left operand: time.time()
SyncReadClock(t) ==
  /\ pc[t] = "read_clock"
  /\ elapsed' = [elapsed EXCEPT ![t] = now]
  /\ pc' = [pc EXCEPT ![t] = "elapsed"]
  /\ UNCHANGED <<env_vars, now, anchor_vars, playlist, position, server_time,
                 thread_history_vars, epoch, resp_history_vars, changes, ticks,
                 requests, pure_vars,
                 writer_vars, api_vars>>

\* line 243, right operand and the difference; line 244
SyncElapsed(t) ==
  /\ pc[t] = "elapsed"
  /\ elapsed' = [elapsed EXCEPT ![t] = elapsed[t] - playlist_start_time]
  /\ position' = [position EXCEPT ![t] = get_current_item_index(playlist[t], elapsed'[t])]
  /\ pc' = [pc EXCEPT ![t] = "server_time"]
  /\ UNCHANGED <<env_vars, now, anchor_vars, playlist, server_time,
                 thread_history_vars, epoch, resp_history_vars, changes, ticks,
                 requests, pure_vars,
                 writer_vars, api_vars>>

\* line 252: 'serverTime': time.time()
SyncServerTime(t) ==
  /\ pc[t] = "server_time"
  /\ server_time' = [server_time EXCEPT ![t] = now]
  /\ pc' = [pc EXCEPT ![t] = "respond"]
  /\ UNCHANGED <<env_vars, now, anchor_vars, playlist, elapsed, position,
                 thread_history_vars, epoch, resp_history_vars, changes, ticks,
                 requests, pure_vars,
                 writer_vars, api_vars>>

\* lines 249-256: the response body; line 253: _playlist_start_time or time.time()
sync_response(pl, stime, start_time, clock, pos) ==
  [playlist |-> pl,
   hash |-> get_playlist_hash_from(pl),
   serverTime |-> stime,
   playlistStartTime |-> IF Truthy(start_time) THEN start_time ELSE clock,
   currentIndex |-> pos[1],
   itemElapsed |-> pos[2]]

\* The request returns: its locals are gone, the histories keep what it did.
SyncRespond(t) ==
  /\ pc[t] = "respond"
  /\ prev_resp' = last_resp
  /\ last_resp' =
       << [resp |-> sync_response(playlist[t], server_time[t], playlist_start_time,
                                  now, position[t]),
           started |-> started[t],
           era_at_start |-> era_at_start[t],
           era_at_end |-> changes,
           anchor_before |-> anchor_at_start[t][1],
           anchor_after |-> Anchor,
           observed |-> observed[t],
           written |-> written[t]] >>
  /\ pc' = [pc EXCEPT ![t] = "idle"]
  /\ playlist' = [playlist EXCEPT ![t] = <<>>]
  /\ elapsed' = [elapsed EXCEPT ![t] = Unbound]
  /\ position' = [position EXCEPT ![t] = << Unbound, Unbound >>]
  /\ server_time' = [server_time EXCEPT ![t] = Unbound]
  /\ started' = [started EXCEPT ![t] = NoTime]
  /\ anchor_at_start' = [anchor_at_start EXCEPT ![t] = None]
  /\ era_at_start' = [era_at_start EXCEPT ![t] = 0]
  /\ observed' = [observed EXCEPT ![t] = Unbound]
  /\ written' = [written EXCEPT ![t] = NoTime]
  /\ UNCHANGED <<env_vars, now, anchor_vars, epoch, changes, ticks, requests, pure_vars,
                 writer_vars, api_vars>>

SyncStep(t) ==
  \/ SyncBuild(t)
  \/ SyncCompare(t)
  \/ SyncSetCache(t)
  \/ SyncSetHash(t)
  \/ SyncSetStart(t)
  \/ SyncCheck(t)
  \/ SyncReadClock(t)
  \/ SyncElapsed(t)
  \/ SyncServerTime(t)
  \/ SyncRespond(t)

(***************************************************************************)
(* get_playlist_hash (lines 134-137) and api_playlist (lines 216-221): the *)
(* handler builds the playlist for the body, then get_playlist_hash builds *)
(* it again; the inputs are read at each of the two calls.                 *)
(***************************************************************************)
get_playlist_hash(vs, cache, cfg, pj) ==
  LET built == get_playlist(vs, cache, cfg, pj)
  IN  [fault |-> built.fault,
       hash |-> IF built.fault THEN None ELSE md5(json_dumps(built.playlist))]

\* an exception leaves the handler: the request fails, no body is returned
FailedResponse == [fault |-> TRUE, playlist |-> <<>>, hash |-> None]

\* line 219: 'playlist': get_playlist()
ApiPlaylistBody ==
  /\ api_pc = "idle"
  /\ LET built == get_playlist(videos, slide_cache, config, playlist_json)
     IN  IF built.fault
           THEN /\ api_resp' = << FailedResponse >>
                /\ UNCHANGED <<api_pc, api_playlist>>
           ELSE /\ api_playlist' = << built.playlist >>
                /\ api_pc' = "hash"
                /\ UNCHANGED api_resp
  /\ UNCHANGED <<env_vars, now, anchor_vars, pc, local_vars, thread_history_vars, epoch,
                 resp_history_vars, changes, ticks, requests, pure_vars, writer_vars,
                 cmd_file, cmd_resp>>

\* Mutant of ApiPlaylistHash: the stateless query stores its fingerprint in the anchor.
ApiPlaylistHashAnchored ==
  /\ api_pc = "hash"
  /\ LET hashed == get_playlist_hash(videos, slide_cache, config, playlist_json)
     IN  /\ api_resp' = IF hashed.fault
                          THEN << FailedResponse >>
                          ELSE << [fault |-> FALSE, playlist |-> api_playlist[1],
                                   hash |-> hashed.hash] >>
         /\ playlist_hash_cache' = hashed.hash
  /\ api_pc' = "idle"
  /\ api_playlist' = None
  /\ UNCHANGED <<env_vars, now, playlist_cache, playlist_start_time, pc, local_vars,
                 thread_history_vars, epoch, resp_history_vars, changes, ticks, requests,
                 pure_vars, writer_vars, cmd_file, cmd_resp>>

\* line 220: 'hash': get_playlist_hash(); lines 218-221: the response
ApiPlaylistHash ==
  /\ api_pc = "hash"
  /\ LET hashed == get_playlist_hash(videos, slide_cache, config, playlist_json)
     IN  api_resp' = IF hashed.fault
                       THEN << FailedResponse >>
                       ELSE << [fault |-> FALSE, playlist |-> api_playlist[1],
                                hash |-> hashed.hash] >>
  /\ api_pc' = "idle"
  /\ api_playlist' = None
  /\ UNCHANGED <<env_vars, now, anchor_vars, pc, local_vars, thread_history_vars, epoch,
                 resp_history_vars, changes, ticks, requests, pure_vars, writer_vars,
                 cmd_file, cmd_resp>>

(***************************************************************************)
(* api_command (lines 259-274)                                             *)
(***************************************************************************)
NoCommandFile == [state |-> "missing", data |-> <<>>]
EmptyObject == << >>
\* commands/web.json: missing, not JSON, or a command
CommandFiles ==
  { NoCommandFile,
    [state |-> "unparseable", data |-> <<>>],
    [state |-> "json", data |-> [action |-> "reload", ts |-> 1]] }

\* the response body: the file's content, {} when it does not parse, None when missing
api_command(cmd) ==
  IF cmd.state = "missing"
    THEN [ok |-> TRUE, command |-> None]
  ELSE IF cmd.state = "unparseable"
    THEN [ok |-> TRUE, command |-> << EmptyObject >>]
  ELSE [ok |-> TRUE, command |-> << cmd.data >>]

\* the file is kept for the other clients
ApiCommand ==
  /\ cmd_resp' = << api_command(cmd_file) >>
  /\ UNCHANGED <<env_vars, now, anchor_vars, pc, local_vars, thread_history_vars, epoch,
                 resp_history_vars, changes, ticks, requests, pure_vars, writer_vars,
                 api_pc, api_playlist, api_resp, cmd_file>>

(***************************************************************************)
(* The environment: the clock, the content store, the two input files      *)
(***************************************************************************)
Tick ==
  /\ ticks < MaxTicks
  /\ ticks' = ticks + 1
  /\ now' = now + TickStep
  /\ UNCHANGED <<env_vars, anchor_vars, pc, local_vars, thread_history_vars, epoch,
                 resp_history_vars, changes, requests, pure_vars,
                 writer_vars, api_vars>>

Inputs(vs, cache, cfg, pj) ==
  [videos |-> vs, slide_cache |-> cache, config |-> cfg, playlist_json |-> pj]

NoFile == [state |-> "missing", data |-> <<>>]
ModeFile(m) == [state |-> "dict", mode |-> m]
Deck(n) == [d \in {"deck"} |-> n]

\* The inputs the server runs on: a fresh installation, one video, a video and a
\* rendered presentation, the same in presentation mode, the same with a selection.
ServerInputs ==
  { Inputs({}, << >>, [state |-> "missing", mode |-> "absent"], NoFile),
    Inputs({Name("a", ".mp4")}, << >>, ModeFile("both"), NoFile),
    Inputs({Name("a", ".mp4")}, Deck(2), ModeFile("both"), NoFile),
    Inputs({Name("a", ".mp4")}, Deck(2), ModeFile("presentation"), NoFile),
    Inputs({Name("a", ".mp4")}, Deck(2), ModeFile("both"),
           [state |-> "list",
            data |-> << RawEntry("dict", RawName("str", Name("deck", ".pptx")),
                                 RawRepeats("int", 1)) >>]) }

CurrentInputs == Inputs(videos, slide_cache, config, playlist_json)

\* content is added or removed, config.json or playlist.json is rewritten
ChangeInputs ==
  /\ changes < MaxChanges
  /\ changes' = changes + 1
  /\ \E e \in ServerInputs :
       /\ e # CurrentInputs
       /\ videos' = e.videos
       /\ slide_cache' = e.slide_cache
       /\ config' = e.config
       /\ playlist_json' = e.playlist_json
  /\ UNCHANGED <<now, anchor_vars, pc, local_vars, thread_history_vars, epoch,
                 resp_history_vars, ticks, requests, pure_vars,
                 writer_vars, api_vars>>

(***************************************************************************)
(* Specifications                                                          *)
(***************************************************************************)
InitServer ==
  /\ now = StartClock
  /\ playlist_cache = None
  /\ playlist_hash_cache = None
  /\ playlist_start_time = NoTime
  /\ pc = [t \in Threads |-> "idle"]
  /\ playlist = [t \in Threads |-> <<>>]
  /\ elapsed = [t \in Threads |-> Unbound]
  /\ position = [t \in Threads |-> << Unbound, Unbound >>]
  /\ server_time = [t \in Threads |-> Unbound]
  /\ started = [t \in Threads |-> NoTime]
  /\ anchor_at_start = [t \in Threads |-> None]
  /\ era_at_start = [t \in Threads |-> 0]
  /\ observed = [t \in Threads |-> Unbound]
  /\ written = [t \in Threads |-> NoTime]
  /\ epoch = 0
  /\ prev_resp = None
  /\ last_resp = None
  /\ changes = 0
  /\ ticks = 0
  /\ requests = 0
  /\ hash_writer = 0
  /\ start_writer = 0
  /\ api_pc = "idle"
  /\ api_playlist = None
  /\ api_resp = None
  /\ cmd_resp = None

InitPure ==
  /\ res_playlist = None
  /\ res_sync = None
  /\ idx_playlist = <<>>
  /\ idx_elapsed = 0
  /\ idx_result = None

InitInputs == CurrentInputs \in ServerInputs

Init ==
  /\ videos \in VideoStores
  /\ slide_cache \in SlideCaches
  /\ config \in Configs
  /\ playlist_json \in GoodPlaylistFiles
  /\ InitInputs
  /\ cmd_file = NoCommandFile
  /\ InitServer
  /\ InitPure

\* The server: request threads interleaving, the clock and the inputs changing.
Next ==
  \/ \E t \in Threads : SyncStep(t)
  \/ Tick
  \/ ChangeInputs

Spec == Init /\ [][Next]_vars

\* The server handling one request at a time.
NextSeq ==
  \/ SyncStep(1)
  \/ Tick
  \/ ChangeInputs

SpecSeq == Init /\ [][NextSeq]_vars

\* Requests arriving without end: lines 232-233 of a request beyond the counted ones.
SyncBuildAgain(t) ==
  /\ pc[t] = "idle"
  /\ requests = MaxRequests
  /\ playlist' = [playlist EXCEPT ![t] = build_playlist_with_durations(videos, slide_cache, config)]
  /\ pc' = [pc EXCEPT ![t] = "compare"]
  /\ started' = [started EXCEPT ![t] = now]
  /\ anchor_at_start' = [anchor_at_start EXCEPT ![t] = << Anchor >>]
  /\ era_at_start' = [era_at_start EXCEPT ![t] = changes]
  /\ UNCHANGED <<env_vars, now, anchor_vars, elapsed, position, server_time, observed,
                 written, epoch, resp_history_vars, changes, ticks, requests, pure_vars,
                 writer_vars, api_vars>>

\* The steps of a request that has started: the thread serving it keeps running.
SyncProgress(t) ==
  \/ SyncCompare(t)
  \/ SyncSetCache(t)
  \/ SyncSetHash(t)
  \/ SyncSetStart(t)
  \/ SyncCheck(t)
  \/ SyncReadClock(t)
  \/ SyncElapsed(t)
  \/ SyncServerTime(t)
  \/ SyncRespond(t)

NextLive ==
  \/ SyncStep(1)
  \/ SyncBuildAgain(1)
  \/ Tick
  \/ ChangeInputs

InitLive ==
  /\ videos = {}
  /\ slide_cache = << >>
  /\ config = [state |-> "missing", mode |-> "absent"]
  /\ playlist_json = NoFile
  /\ cmd_file = NoCommandFile
  /\ InitServer
  /\ InitPure

\* A fresh installation, requests one at a time, without end; every request that has
\* started completes.
SpecLive ==
  /\ InitLive
  /\ [][NextLive]_vars
  /\ WF_vars(SyncProgress(1))

\* The three queries on a fresh installation: synchronized requests one at a time, the
\* stateless query and the command query served next to them, the inputs changing at any
\* step (also between the two builds of api_playlist).
InitApi ==
  /\ videos = {}
  /\ slide_cache = << >>
  /\ config = [state |-> "missing", mode |-> "absent"]
  /\ playlist_json = NoFile
  /\ cmd_file \in CommandFiles
  /\ InitServer
  /\ InitPure

NextApi ==
  \/ SyncStep(1)
  \/ ChangeInputs
  \/ ApiPlaylistBody
  \/ ApiPlaylistHash
  \/ ApiCommand

SpecApi == InitApi /\ [][NextApi]_vars

(***************************************************************************)
(* The two playlist builders applied to every store, mode and selection    *)
(***************************************************************************)
InitResolve ==
  /\ videos \in VideoStores
  /\ slide_cache \in SlideCaches
  /\ config \in ModeConfigs
  /\ playlist_json \in ResolvePlaylistFiles
  /\ cmd_file = NoCommandFile
  /\ InitServer
  /\ InitPure

ApplyGetPlaylist ==
  /\ res_playlist = None
  /\ res_playlist' = << get_playlist(videos, slide_cache, config, playlist_json) >>
  /\ UNCHANGED <<env_vars, now, anchor_vars, pc, local_vars, thread_history_vars, epoch,
                 resp_history_vars, changes, ticks, requests, res_sync, idx_playlist,
                 idx_elapsed, idx_result,
                 writer_vars, api_vars>>

ApplyBuildPlaylistWithDurations ==
  /\ res_sync = None
  /\ res_sync' = << build_playlist_with_durations(videos, slide_cache, config) >>
  /\ UNCHANGED <<env_vars, now, anchor_vars, pc, local_vars, thread_history_vars, epoch,
                 resp_history_vars, changes, ticks, requests, res_playlist, idx_playlist,
                 idx_elapsed, idx_result,
                 writer_vars, api_vars>>

NextResolve ==
  \/ ApplyGetPlaylist
  \/ ApplyBuildPlaylistWithDurations

SpecResolve == InitResolve /\ [][NextResolve]_vars

\* The same with config.json in every condition: missing, unparseable, no object, an
\* object without a mode, with each of the three modes, with another mode value.
InitConfig ==
  /\ videos \in VideoStores
  /\ slide_cache \in SlideCaches
  /\ config \in Configs
  /\ playlist_json \in GoodPlaylistFiles
  /\ cmd_file = NoCommandFile
  /\ InitServer
  /\ InitPure

SpecConfig == InitConfig /\ [][NextResolve]_vars

(***************************************************************************)
(* get_current_item_index applied to every playlist and elapsed time       *)
(***************************************************************************)
InitIndex ==
  /\ videos = {}
  /\ slide_cache = << >>
  /\ config = [state |-> "missing", mode |-> "absent"]
  /\ playlist_json = NoFile
  /\ cmd_file = NoCommandFile
  /\ InitServer
  /\ res_playlist = None
  /\ res_sync = None
  /\ idx_playlist \in SeqsUpTo(IdxItems, MaxIdxLen)
  /\ idx_elapsed \in 0..MaxIdxElapsed
  /\ idx_result = None

ApplyGetCurrentItemIndex ==
  /\ idx_result = None
  /\ idx_result' = << get_current_item_index(idx_playlist, idx_elapsed) >>
  /\ UNCHANGED <<env_vars, now, anchor_vars, pc, local_vars, thread_history_vars, epoch,
                 resp_history_vars, changes, ticks, requests, res_playlist, res_sync,
                 idx_playlist, idx_elapsed,
                 writer_vars, api_vars>>

NextIndex == ApplyGetCurrentItemIndex

SpecIndex == InitIndex /\ [][NextIndex]_vars

(***************************************************************************)
(* Properties of the synchronized query                                    *)
(***************************************************************************)
Prev == prev_resp[1]
Last == last_resp[1]

\* Threads whose request found the stored fingerprint stale and has reset the start time.
Resetters == { t \in Threads : observed[t] # Unbound /\ written[t] # NoTime }

\* Two requests met the same stale fingerprint with the same new one: no write changed
\* the stored fingerprint between their comparisons.
SameTransition(t1, t2) ==
  /\ observed[t1] = observed[t2]
  /\ get_playlist_hash_from(playlist[t1]) = get_playlist_hash_from(playlist[t2])

\* C1: concurrent synchronized requests that all observe the same stale stored
\* fingerprint reset the anchor start time once: no two of them write different start
\* timestamps, and their responses carry the same anchorStartTime.
C1_OneResetPerTransition ==
  /\ \A t1, t2 \in Resetters :
       SameTransition(t1, t2) => written[t1] = written[t2]
  /\ (/\ prev_resp # None /\ last_resp # None
      /\ Prev.observed # Unbound /\ Prev.observed = Last.observed
      /\ Prev.resp.hash = Last.resp.hash)
       => Prev.resp.playlistStartTime = Last.resp.playlistStartTime

\* The latest two requests ran one after the other with no change of the inputs from
\* the start of the earlier to the end of the later.
UnchangedInputs ==
  /\ prev_resp # None
  /\ last_resp # None
  /\ Last.era_at_end = Prev.era_at_start

\* C2: of two successive synchronized requests made while the content store, mode and
\* selection stay unchanged, the later returns the anchorStartTime of the earlier; and a
\* request whose computed fingerprint equals the stored one leaves the stored anchor
\* (fingerprint, playlist, start time) as it found it.
C2_AnchorStableWhileUnchanged ==
  /\ UnchangedInputs => Last.resp.playlistStartTime = Prev.resp.playlistStartTime
  /\ (last_resp # None /\ Last.resp.hash = Last.anchor_before.hash)
       => Last.anchor_after = Last.anchor_before

\* A second request on unchanged inputs, made after the clock advanced, on a non-empty
\* playlist, that found the stored fingerprint equal to its own.
C2_Witness ==
  /\ UnchangedInputs
  /\ Last.started > Prev.started
  /\ Last.resp.playlist # <<>>
  /\ Last.resp.hash = Last.anchor_before.hash

\* The latest two requests saw different playlists.
ContentChanged ==
  /\ prev_resp # None
  /\ last_resp # None
  /\ Prev.resp.playlist # Last.resp.playlist

\* C3: when the content changes between two synchronized requests, the later request
\* returns a different fingerprint and an anchorStartTime between the moment it started
\* and the serverTime it returns.
C3_AnchorResetOnChange ==
  ContentChanged =>
    /\ Last.resp.hash # Prev.resp.hash
    /\ Last.started <= Last.resp.playlistStartTime
    /\ Last.resp.playlistStartTime <= Last.resp.serverTime

\* A request on changed content, made after the clock advanced past the earlier anchor.
C3_Witness ==
  /\ ContentChanged
  /\ Prev.resp.playlist # <<>>
  /\ Last.resp.playlist # <<>>
  /\ Last.resp.playlistStartTime > Prev.resp.playlistStartTime

\* C6: when the playlist is empty or its total duration is 0, the synchronized query
\* returns currentIndex = 0 and itemElapsed = 0, whatever the clock and the anchor.
C6_EmptyPlaylistSafe ==
  (last_resp # None
   /\ (Last.resp.playlist = <<>> \/ calculate_total_duration(Last.resp.playlist) = 0))
    => (Last.resp.currentIndex = 0 /\ Last.resp.itemElapsed = 0)

\* A request on an empty playlist that found an anchor, answered after its start time.
C6_Witness ==
  /\ last_resp # None
  /\ Last.resp.playlist = <<>>
  /\ Last.anchor_before.start # NoTime
  /\ Last.resp.serverTime > Last.resp.playlistStartTime

\* C10: currentIndex and itemElapsed of a synchronized response are the looping index
\* computation applied to the response's own playlist and serverTime - anchorStartTime.
C10_PositionFromResponse ==
  last_resp # None =>
    << Last.resp.currentIndex, Last.resp.itemElapsed >>
      = get_current_item_index(Last.resp.playlist,
                               Last.resp.serverTime - Last.resp.playlistStartTime)


\* No synchronized request is between its comparison (line 236) and the end of its
\* three writes (lines 237-239).
NoUpdateInProgress ==
  \A t \in Threads : pc[t] \notin {"set_cache", "set_hash", "set_start"}

\* C13: whenever no synchronized request is part-way through its update, the stored
\* fingerprint is the fingerprint of the stored playlist, and the stored start time was
\* written by the request that wrote the stored fingerprint.
C13_AnchorReplacedAtomically ==
  (NoUpdateInProgress /\ playlist_hash_cache # None) =>
    /\ playlist_cache # None
    /\ playlist_hash_cache = get_playlist_hash_from(playlist_cache[1])
    /\ start_writer = hash_writer

\* C19: the clock never going back, every synchronized response has
\* anchorStartTime <= serverTime, whatever other requests do while it is assembled.
C19_StartNotAfterServerTime ==
  last_resp # None => Last.resp.playlistStartTime <= Last.resp.serverTime

\* The fingerprint of the content as it is now.
CurrentFingerprint ==
  get_playlist_hash_from(build_playlist_with_durations(videos, slide_cache, config))

\* No request runs line 239: the start time stays as it is.
StartTimeKept ==
  /\ playlist_start_time' = playlist_start_time
  /\ \A t \in Threads : ~SyncSetStart(t)

\* A request about to return reports the stored start time and the fingerprint of the
\* current content, which is the stored fingerprint.
ResponsesCurrent ==
  \A t \in Threads :
    pc[t] = "respond" =>
      LET resp == sync_response(playlist[t], server_time[t], playlist_start_time, now,
                                position[t])
      IN  /\ Truthy(playlist_start_time)
          /\ resp.playlistStartTime = playlist_start_time
          /\ resp.hash = CurrentFingerprint
          /\ playlist_hash_cache = CurrentFingerprint

\* C14: once the content store, mode and selection have stopped changing and the
\* requests in flight have completed, eventually the start time never changes again,
\* and every later synchronized response reports that start time and the fingerprint of
\* the current content.
C14_EventuallyStable ==
  /\ <>[][StartTimeKept]_vars
  /\ <>[]ResponsesCurrent

\* After the inputs changed, a request reset the anchor; the clock advanced, and a later
\* request, beyond the counted ones, left the anchor alone and reported the same start
\* time with the fingerprint of the current content.
C14_Witness ==
  /\ prev_resp # None
  /\ last_resp # None
  /\ changes > 0
  /\ requests = MaxRequests
  /\ Prev.era_at_start = changes
  /\ Prev.written # NoTime
  /\ Last.written = NoTime
  /\ Last.resp.playlist # <<>>
  /\ Last.resp.playlistStartTime = Prev.resp.playlistStartTime
  /\ Last.resp.serverTime > Last.resp.playlistStartTime
  /\ Last.resp.hash = CurrentFingerprint
  /\ playlist_start_time = Last.resp.playlistStartTime

(***************************************************************************)
(* Properties of the stateless query and the command query                 *)
(***************************************************************************)
NoAnchor == [cache |-> None, hash |-> None, start |-> NoTime]

\* C15: no step of api_playlist or api_command changes the stored fingerprint, the
\* stored playlist or the start time, and before the first synchronized request there
\* is no anchor, however many stateless and command requests were served.
C15_StatelessQueriesLeaveAnchor ==
  /\ [][(ApiPlaylistBody \/ ApiPlaylistHash \/ ApiCommand) => UNCHANGED anchor_vars]_vars
  /\ [](requests = 0 => Anchor = NoAnchor)

\* A synchronized request has created the anchor; the command query has answered with a
\* command and the stateless query with a playlist, and the stateless query is being
\* served once more.
C15_Witness ==
  /\ api_resp # None
  /\ api_resp[1].playlist # <<>>
  /\ cmd_resp # None
  /\ cmd_resp[1].command # None
  /\ last_resp # None
  /\ playlist_start_time # NoTime
  /\ api_pc = "hash"

\* C18: the hash of a response of api_playlist is the fingerprint of the playlist of
\* that response, also when the inputs change while the request is served.
C18_HashOfReturnedPlaylist ==
  (api_resp # None /\ ~api_resp[1].fault) =>
    api_resp[1].hash = get_playlist_hash_from(api_resp[1].playlist)

(***************************************************************************)
(* Properties of the playlist builders                                     *)
(***************************************************************************)
Stateless == res_playlist[1]      \* get_playlist's result: [fault, playlist]
Synced == res_sync[1]             \* build_playlist_with_durations' result

Returned == res_playlist # None /\ ~Stateless.fault

Logical(pl) == [ i \in DOMAIN pl |-> << pl[i].type, pl[i].url, pl[i].name >> ]

\* C4: for every content store, mode and selection, get_playlist and
\* build_playlist_with_durations return the same ordered sequence of entries when
\* compared on (type, url, name).
C4_SameLogicalPlaylist ==
  (Returned /\ res_sync # None) => Logical(Stateless.playlist) = Logical(Synced)

TypesIn(pl) == { pl[i].type : i \in DOMAIN pl }

\* C7: with mode video no entry of type image appears in a returned playlist, and with
\* mode presentation no entry of type video, in the stateless and the synchronized query.
C7_ModeFilter ==
  /\ Returned =>
       /\ config.mode = "video" => "image" \notin TypesIn(Stateless.playlist)
       /\ config.mode = "presentation" => "video" \notin TypesIn(Stateless.playlist)
  /\ res_sync # None =>
       /\ config.mode = "video" => "image" \notin TypesIn(Synced)
       /\ config.mode = "presentation" => "video" \notin TypesIn(Synced)

\* The selection as it enters the resolution: the {name, repeats} entries of the file.
Selection == read_selected(playlist_json)
NamedSelection ==
  /\ Selection # <<>>
  /\ \A i \in DOMAIN Selection : Selection[i].name.t \in {"str", "falsy"}

\* Video mode, a selection that names a rendered presentation, videos and slides on
\* disk: the stateless playlist was built, and so was the synchronized one.
C7_Witness ==
  /\ Returned
  /\ res_sync # None
  /\ config.mode = "video"
  /\ videos # {}
  /\ "deck" \in DOMAIN slide_cache /\ slide_cache["deck"] > 0
  /\ \E i \in DOMAIN Selection :
       Selection[i].name.t = "str" /\ Selection[i].name.v.stem = "deck"
  /\ Synced # <<>>

\* Selection entry s accounts for playlist entry e: a video of that name, or a slide of
\* the presentation directory named by the name's stem.
Accounts(s, e) ==
  /\ s.name.t = "str"
  /\ \/ e.type = "video" /\ e.name = s.name.v
     \/ e.type = "image" /\ e.url.path[1].stem = s.name.v.stem

Matches(s) ==
  /\ s.name.t = "str"
  /\ (s.name.v \in videos \/ s.name.v.stem \in DOMAIN slide_cache)

\* The entries of pl from the k-th on are accounted for by entries of sel taken in
\* order, from the from-th on (each by the earliest that can).
RECURSIVE InSelectionOrder(_, _, _, _)
InSelectionOrder(sel, pl, k, from) ==
  IF k > Len(pl)
    THEN TRUE
    ELSE LET by == { i \in from..Len(sel) : Accounts(sel[i], pl[k]) }
         IN  /\ by # {}
             /\ InSelectionOrder(sel, pl, k + 1, CHOOSE i \in by : \A j \in by : i <= j)

\* C8: when a selection is present and non-empty, get_playlist returns without error a
\* playlist whose every entry comes from a selection entry, in selection order; what the
\* selection does not name never appears, and a selection none of whose names match
\* yields the empty playlist.
C8_SelectionPrecedence ==
  (res_playlist # None /\ NamedSelection) =>
    LET sel == Selection
        pl == Stateless.playlist
    IN  /\ ~Stateless.fault
        /\ InSelectionOrder(sel, pl, 1, 1)
        /\ (\A i \in DOMAIN sel : ~Matches(sel[i])) => pl = <<>>

\* A selection of names that match nothing, with videos and slides on disk that the
\* default enumeration would list.
C8_Witness ==
  /\ res_playlist # None
  /\ NamedSelection
  /\ \A i \in DOMAIN Selection : ~Matches(Selection[i])
  /\ default_playlist(videos, slide_cache, read_mode(config)) # <<>>
  /\ Cardinality(videos) = 2
  /\ Stateless.playlist = <<>>

\* What a selection entry resolves to.
ToVideo(s) ==
  /\ s.name.t = "str"
  /\ s.name.v \in videos
  /\ config.mode \in {"both", "video"}
ToGroup(s) ==
  /\ s.name.t = "str"
  /\ ~ToVideo(s)
  /\ s.name.v.stem \in DOMAIN slide_cache
  /\ config.mode \in {"both", "presentation"}

GroupSize(s) == slide_cache[s.name.v.stem]
BlockLen(s) ==
  IF ToVideo(s) THEN s.repeats
  ELSE IF ToGroup(s) THEN GroupSize(s) * s.repeats
  ELSE 0

\* Number of playlist entries the selection entries before the i-th contribute.
RECURSIVE Offset(_, _)
Offset(sel, i) == IF i <= 1 THEN 0 ELSE Offset(sel, i - 1) + BlockLen(sel[i - 1])

\* C9: a selection entry {name, repeats = r} that resolves to a presentation with slides
\* s1..sk contributes k*r consecutive image entries, the j-th being slide (j-1) mod k + 1
\* (the whole group r times in a row); one that resolves to a video contributes r
\* consecutive entries for that video.
C9_GroupRepeats ==
  (Returned /\ NamedSelection) =>
    LET sel == Selection
        pl == Stateless.playlist
        off == [ i \in 1..(Len(sel) + 1) |-> Offset(sel, i) ]
    IN  /\ Len(pl) = off[Len(sel) + 1]
        /\ \A i \in DOMAIN sel : \A j \in 1..BlockLen(sel[i]) :
             LET e == pl[off[i] + j]
             IN  IF ToVideo(sel[i])
                   THEN e.type = "video" /\ e.name = sel[i].name.v
                   ELSE /\ e.type = "image"
                        /\ e.url.path[1].stem = sel[i].name.v.stem
                        /\ e.name = SlideFiles[((j - 1) % GroupSize(sel[i])) + 1]

\* A presentation of two slides or more selected with repeats of two or more, after
\* another selection entry that contributed something.
C9_Witness ==
  /\ Returned
  /\ NamedSelection
  /\ \E i \in DOMAIN Selection :
       /\ ToGroup(Selection[i])
       /\ GroupSize(Selection[i]) >= 2
       /\ Selection[i].repeats >= 2
       /\ Offset(Selection, i) > 0

\* C11: no shape of the selection file makes get_playlist raise: whatever playlist.json
\* holds (no list, entries that are neither string nor object, objects whose name is
\* missing, empty, a number or a list, repeats that are no number), get_playlist returns
\* a playlist, every entry of which comes from a selection entry with a string name.
C11_MalformedSelectionNeverFaults ==
  res_playlist # None =>
    /\ ~Stateless.fault
    /\ Selection # <<>> =>
         \A k \in DOMAIN Stateless.playlist :
           \E i \in DOMAIN Selection : Accounts(Selection[i], Stateless.playlist[k])

\* config.json gives none of the three recognized modes.
NoRecognizedMode ==
  \/ config.state # "dict"
  \/ config.mode \notin {"both", "video", "presentation"}

\* C12: when config.json is missing, unparseable, no object, has no mode, or has a mode
\* that is none of both, video, presentation, get_playlist and
\* build_playlist_with_durations return what they return for mode both.
C12_MalformedConfigMeansBoth ==
  NoRecognizedMode =>
    /\ res_playlist # None =>
         Stateless = get_playlist(videos, slide_cache, ModeFile("both"), playlist_json)
    /\ res_sync # None =>
         Synced = build_playlist_with_durations(videos, slide_cache, ModeFile("both"))

\* The elements of playlist.json that the normalization keeps: strings, and objects
\* that carry a name.
Kept(e) == e.kind = "str" \/ (e.kind = "dict" /\ e.name.t # "falsy")

\* The repeats a kept element is to get: 1 for a string, for a missing or unconvertible
\* value and for a value below 1, else the value.
RepeatsFor(e) ==
  IF e.kind = "dict" /\ e.repeats.t = "int" /\ e.repeats.v >= 1 THEN e.repeats.v ELSE 1

\* C16: every normalized selection entry carries an integer repeats >= 1 (1 for a plain
\* string, for a missing or unconvertible repeats, for zero or a negative value), and
\* an entry that resolves to a video or to a presentation with slides is emitted at
\* least once.
C16_RepeatsAtLeastOne ==
  playlist_json.state = "list" =>
    LET sel == Selection
        kept == SelectSeq(playlist_json.data, Kept)
    IN  /\ Len(sel) = Len(kept)
        /\ \A i \in DOMAIN sel :
             /\ sel[i].repeats \in Nat
             /\ sel[i].repeats >= 1
             /\ sel[i].repeats = RepeatsFor(kept[i])
        /\ Returned =>
             \A i \in DOMAIN sel :
               /\ ToVideo(sel[i]) =>
                    \E k \in DOMAIN Stateless.playlist :
                      /\ Stateless.playlist[k].type = "video"
                      /\ Stateless.playlist[k].name = sel[i].name.v
               /\ (ToGroup(sel[i]) /\ GroupSize(sel[i]) > 0) =>
                    \E k \in DOMAIN Stateless.playlist :
                      /\ Stateless.playlist[k].type = "image"
                      /\ Stateless.playlist[k].url.path[1].stem = sel[i].name.v.stem

\* playlist.json holds one object naming a video on disk with repeats zero or negative:
\* the video was emitted once.
C16_Witness ==
  /\ Returned
  /\ playlist_json.state = "list"
  /\ Len(playlist_json.data) = 1
  /\ playlist_json.data[1].kind = "dict"
  /\ playlist_json.data[1].repeats.t = "int"
  /\ playlist_json.data[1].repeats.v <= 0
  /\ ToVideo(Selection[1])
  /\ Len(Stateless.playlist) = 1

VideoCount(pl, n) ==
  Cardinality({ k \in DOMAIN pl : pl[k].type = "video" /\ pl[k].name = n })
ImageCount(pl, d) ==
  Cardinality({ k \in DOMAIN pl : pl[k].type = "image" /\ pl[k].url.path[1].stem = d })

\* The video branch is taken for name n: a known video, and the mode allows video.
TakesVideoBranch(n) == n \in videos /\ config.mode \in {"both", "video"}

\* Entries due for video n from the first i selection entries.
RECURSIVE VideoDue(_, _, _)
VideoDue(sel, n, i) ==
  IF i = 0 THEN 0
  ELSE VideoDue(sel, n, i - 1)
       + (IF sel[i].name.v = n /\ TakesVideoBranch(n) THEN sel[i].repeats ELSE 0)

\* Slide entries due for presentation directory d from the first i selection entries:
\* every name with stem d for which the video branch is not taken, when the directory
\* exists and the mode allows presentation.
RECURSIVE ImageDue(_, _, _)
ImageDue(sel, d, i) ==
  IF i = 0 THEN 0
  ELSE ImageDue(sel, d, i - 1)
       + (IF /\ sel[i].name.v.stem = d
             /\ ~TakesVideoBranch(sel[i].name.v)
             /\ d \in DOMAIN slide_cache
             /\ config.mode \in {"both", "presentation"}
            THEN slide_cache[d] * sel[i].repeats
            ELSE 0)

KnownNames == SelectionNames \cup Range(VideoFiles)
KnownStems == { n.stem : n \in KnownNames } \cup Range(PresDirs)

\* C17: in the selection-driven path a name that is a known video emits that video
\* (repeats times) only when the mode allows video; in every other case, a known video
\* under mode presentation included, the name's stem is taken as a presentation
\* directory and its slides are emitted only when the directory exists and the mode
\* allows presentation; under mode video a name that is no known video emits nothing.
C17_ModeCheckedPerBranch ==
  (Returned /\ NamedSelection) =>
    LET sel == Selection
        pl == Stateless.playlist
    IN  /\ \A n \in KnownNames : VideoCount(pl, n) = VideoDue(sel, n, Len(sel))
        /\ \A d \in KnownStems : ImageCount(pl, d) = ImageDue(sel, d, Len(sel))
        /\ \A k \in DOMAIN pl :
             \/ pl[k].type = "video" /\ pl[k].name \in KnownNames
             \/ pl[k].type = "image" /\ pl[k].url.path[1].stem \in KnownStems
        /\ config.mode = "video" =>
             \A k \in DOMAIN pl : pl[k].type = "video" /\ pl[k].name \in videos

\* Mode presentation, a selection naming a.mp4, which is a video on disk, and a rendered
\* presentation directory 'a': the slides of 'a' were emitted.
C17_Witness ==
  /\ Returned
  /\ NamedSelection
  /\ config.mode = "presentation"
  /\ \E i \in DOMAIN Selection :
       /\ Selection[i].name.t = "str"
       /\ Selection[i].name.v \in videos
       /\ Selection[i].name.v.stem \in DOMAIN slide_cache
       /\ ImageCount(Stateless.playlist, Selection[i].name.v.stem) > 0

(***************************************************************************)
(* Properties of get_current_item_index                                    *)
(***************************************************************************)
RECURSIVE SumDurations(_, _)
SumDurations(pl, n) == IF n = 0 THEN 0 ELSE SumDurations(pl, n - 1) + DurationOf(pl[n])

IdxTotal == SumDurations(idx_playlist, Len(idx_playlist))

\* C5: for a playlist of positive total duration and an elapsed time >= 0,
\* get_current_item_index returns (i, e) with 0 <= i < length,
\* before(i) <= pos < before(i) + duration(i) and e = pos - before(i), where
\* pos = elapsed mod total; so 0 <= e < duration(i), and the result for elapsed + total
\* is the same.
C5_LoopingIndex ==
  (idx_result # None /\ IdxTotal > 0) =>
    LET i == idx_result[1][1]
        e == idx_result[1][2]
        pos == idx_elapsed % IdxTotal
        before == SumDurations(idx_playlist, i)
    IN  /\ 0 <= i /\ i < Len(idx_playlist)
        /\ before <= pos
        /\ pos < before + DurationOf(idx_playlist[i + 1])
        /\ e = pos - before
        /\ 0 <= e /\ e < DurationOf(idx_playlist[i + 1])
        /\ DurationOf(idx_playlist[i + 1]) > 0
        /\ get_current_item_index(idx_playlist, idx_elapsed + IdxTotal) = idx_result[1]

\* An elapsed time past the first loop that lands inside an entry other than the first,
\* in a playlist that also holds an entry of no duration.
C5_Witness ==
  /\ idx_result # None
  /\ IdxTotal > 0
  /\ idx_elapsed > IdxTotal
  /\ idx_result[1][1] > 0
  /\ idx_result[1][2] > 0
  /\ \E k \in DOMAIN idx_playlist : DurationOf(idx_playlist[k]) = 0


====
